---------------------------- MODULE Spec2Model ----------------------------
(***************************************************************************)
(* A model of the FileUploader component                                   *)
(* (src/app/components/FileUploader1.tsx).                                 *)
(*                                                                         *)
(* The component keeps one state cell, displayFile, receives the props     *)
(* file (propFile) and onFileSelect, and has two event handlers, onDrop    *)
(* and handleRemoveFile, and one effect with the dependency list           *)
(* [propFile].  An event handler queues state updates; React then renders  *)
(* (applies the queued updates), and runs the effect when its dependency   *)
(* changed.  User events and parent updates are taken only when the        *)
(* component is quiescent (pc = "idle"): each event is rendered and its    *)
(* effects are flushed before the next one is handled.                     *)
(***************************************************************************)
EXTENDS Integers, Sequences, FiniteSets, TLC

\* ------------------------------------------------------------------ bounds
NumFiles == 4       \* File objects the user or the parent can supply
MaxDrop == 2        \* files in one drop
MaxEvents == 3      \* user events and parent updates in one behaviour

\* ------------------------------------------------------------------ values
\* JavaScript values of type File | null | undefined; File objects are
\* compared by reference (their id).
Null == [kind |-> "null", id |-> 0]
Undefined == [kind |-> "undefined", id |-> 0]
File(i) == [kind |-> "file", id |-> i]
Files == {File(i) : i \in 1 .. NumFiles}

\* No queued update / no call made yet.
NoUpdate == [kind |-> "none", id |-> 0]

\* const maxFileSize = 20 * 1024 * 1024
maxFileSize == 20 * 1024 * 1024

\* The attributes of the File objects: MIME type, extension of the name, size.
FileType(f) == IF f.id % 4 = 3 THEN "text/plain" ELSE "application/pdf"
FileExt(f) == IF f.id % 4 = 3 THEN ".txt" ELSE ".pdf"
FileSize(f) ==
  CASE f.id % 4 = 1 -> 1024
    [] f.id % 4 = 2 -> maxFileSize
    [] f.id % 4 = 3 -> 1024
    [] OTHER -> maxFileSize + 1

\* file?: File | null
PropValues == Files \cup {Null, Undefined}

\* The parent: passes no onFileSelect; passes one that leaves the file prop
\* alone; passes one that sets the file prop to the value it receives.
ParentKinds == {"noCallback", "ignores", "controlled"}

DropLists == UNION {[1 .. n -> Files] : n \in 0 .. MaxDrop}

VARIABLES
  parent,          \* the kind of parent the component is mounted in
  propFile,        \* the file prop of the latest render
  displayFile,     \* the state cell of useState
  pendingDisplay,  \* the queued setDisplayFile value, or NoUpdate
  pendingProp,     \* the file prop of the parent's queued re-render, or NoUpdate
  pc,              \* "idle", "render" (a render is scheduled), "effect"
  nCalls,          \* number of onFileSelect invocations
  lastCall,        \* argument of the latest onFileSelect invocation
  nDrops,          \* number of drop events
  nRemoves,        \* number of remove clicks
  nProps,          \* number of parent updates of the file prop
  event,           \* the latest event (mount, drop, remove, setProp)
  lastOp,          \* the latest step taken
  steps            \* renders and effect runs since the latest event

vars == <<parent, propFile, displayFile, pendingDisplay, pendingProp, pc,
          nCalls, lastCall, nDrops, nRemoves, nProps, event, lastOp, steps>>


\* ------------------------------------------------------------ construction
NoEvent(op) ==
  [op |-> op, dropped |-> <<>>, accepted |-> <<>>, calls0 |-> nCalls,
   prop0 |-> propFile, display0 |-> displayFile]

\* The state after the first render: useState(null), the effect of the mount
\* not yet run.
Init ==
  /\ parent \in ParentKinds
  /\ propFile \in PropValues
  /\ displayFile = Null
  /\ pendingDisplay = NoUpdate
  /\ pendingProp = NoUpdate
  /\ pc = "effect"
  /\ nCalls = 0
  /\ lastCall = NoUpdate
  /\ nDrops = 0
  /\ nRemoves = 0
  /\ nProps = 0
  /\ event = [op |-> "mount", dropped |-> <<>>, accepted |-> <<>>, calls0 |-> 0,
              prop0 |-> propFile, display0 |-> Null]
  /\ lastOp = "mount"
  /\ steps = 0

\* ----------------------------------------------------------- the callback
\* onFileSelect?.(v): nothing without a callback; a controlled parent sets the
\* file prop to v, which re-renders the component with that prop.
OnFileSelect(v) ==
  /\ nCalls' = IF parent = "noCallback" THEN nCalls ELSE nCalls + 1
  /\ lastCall' = IF parent = "noCallback" THEN lastCall ELSE v
  /\ pendingProp' = IF parent = "controlled" THEN v ELSE NoUpdate

\* ------------------------------------------------------------- the effect
\* const fileToSet = propFile === undefined ? null : propFile
FileToSet(p) == IF p = Undefined THEN Null ELSE p

\* Effect with the sync restricted to an absent file prop.
EffectNullOnly ==
  /\ pc = "effect"
  /\ IF FileToSet(propFile) = Null /\ displayFile # Null
       THEN /\ pendingDisplay' = Null
            /\ pc' = "render"
       ELSE /\ pendingDisplay' = pendingDisplay
            /\ pc' = "idle"
  /\ lastOp' = "effect"
  /\ steps' = steps + 1
  /\ UNCHANGED <<parent, propFile, displayFile, pendingProp, nCalls, lastCall,
                 nDrops, nRemoves, nProps, event>>

\* Effect that also reports the synced value to the parent.
EffectNotifies ==
  /\ pc = "effect"
  /\ pendingDisplay' = IF FileToSet(propFile) # displayFile
                         THEN FileToSet(propFile) ELSE pendingDisplay
  /\ OnFileSelect(FileToSet(propFile))
  /\ pc' = IF FileToSet(propFile) # displayFile \/ parent = "controlled"
             THEN "render" ELSE "idle"
  /\ lastOp' = "effect"
  /\ steps' = steps + 1
  /\ UNCHANGED <<parent, propFile, displayFile, nDrops, nRemoves, nProps, event>>

\* useEffect(() => { if (fileToSet !== displayFile) setDisplayFile(fileToSet) },
\*           [propFile])
Effect ==
  /\ pc = "effect"
  /\ IF FileToSet(propFile) # displayFile
       THEN /\ pendingDisplay' = FileToSet(propFile)
            /\ pc' = "render"
       ELSE /\ pendingDisplay' = pendingDisplay
            /\ pc' = "idle"
  /\ lastOp' = "effect"
  /\ steps' = steps + 1
  /\ UNCHANGED <<parent, propFile, displayFile, pendingProp, nCalls, lastCall,
                 nDrops, nRemoves, nProps, event>>

\* DepsChanged without the dependency list: the effect runs after every render.
DepsAlways(old, new) == TRUE

\* The dependency list [propFile]: the effect is scheduled by a render whose
\* propFile is not the previous render's (Object.is).
DepsChanged(old, new) == old # new

\* A render: the queued state update and the parent's new prop are applied.
Render ==
  /\ pc = "render"
  /\ displayFile' = IF pendingDisplay = NoUpdate THEN displayFile ELSE pendingDisplay
  /\ propFile' = IF pendingProp = NoUpdate THEN propFile ELSE pendingProp
  /\ pendingDisplay' = NoUpdate
  /\ pendingProp' = NoUpdate
  /\ pc' = IF DepsChanged(propFile, propFile') THEN "effect" ELSE "idle"
  /\ lastOp' = "render"
  /\ steps' = steps + 1
  /\ UNCHANGED <<parent, nCalls, lastCall, nDrops, nRemoves, nProps, event>>

NumEvents == nDrops + nRemoves + nProps

\* ---------------------------------------------------------------- the drop
\* FileAccepted without maxSize.
FileAcceptedAnySize(f) ==
  FileType(f) = "application/pdf" \/ FileExt(f) = ".pdf"

\* accept: { "application/pdf": [".pdf"] }, maxSize: maxFileSize
FileAccepted(f) ==
  /\ FileType(f) = "application/pdf" \/ FileExt(f) = ".pdf"
  /\ FileSize(f) <= maxFileSize

\* The accepted files of a drop: the files that pass accept and maxSize; with
\* multiple: false, none of them when more than one passes.
AcceptedFiles(dropped) ==
  LET acc == SelectSeq(dropped, FileAccepted)
  IN  IF Len(acc) > 1 THEN <<>> ELSE acc

\* DroppedFile taking the last accepted file.
DroppedFileLast(acceptedFiles) ==
  IF Len(acceptedFiles) = 0 THEN Null ELSE acceptedFiles[Len(acceptedFiles)]

\* const droppedFile = acceptedFiles[0] || null
DroppedFile(acceptedFiles) ==
  IF Len(acceptedFiles) = 0 THEN Null ELSE acceptedFiles[1]

\* RootRendered with the root element rendered in both branches.
RootAlwaysRendered == TRUE

\* displayFile ? <selected file> : <div {...getRootProps()}> <input .../> </div>
RootRendered == displayFile = Null

\* noClick: !!displayFile
NoClick == displayFile # Null

\* OnDrop without setDisplayFile: the display is left to the file prop.
OnDropNoDisplay(dropped, acceptedFiles) ==
  /\ pc = "idle"
  /\ RootRendered
  /\ NumEvents < MaxEvents
  /\ pendingDisplay' = NoUpdate
  /\ OnFileSelect(DroppedFile(acceptedFiles))
  /\ nDrops' = nDrops + 1
  /\ event' = [op |-> "drop", dropped |-> dropped, accepted |-> acceptedFiles,
               calls0 |-> nCalls, prop0 |-> propFile, display0 |-> displayFile]
  /\ pc' = "render"
  /\ lastOp' = "drop"
  /\ steps' = 0
  /\ UNCHANGED <<parent, propFile, displayFile, nRemoves, nProps>>

\* OnDrop returning early when no file was accepted.
OnDropSkipEmpty(dropped, acceptedFiles) ==
  /\ pc = "idle"
  /\ RootRendered
  /\ NumEvents < MaxEvents
  /\ IF acceptedFiles = <<>>
       THEN /\ pc' = "idle"
            /\ UNCHANGED <<pendingDisplay, pendingProp, nCalls, lastCall>>
       ELSE /\ pc' = "render"
            /\ pendingDisplay' = DroppedFile(acceptedFiles)
            /\ OnFileSelect(DroppedFile(acceptedFiles))
  /\ nDrops' = nDrops + 1
  /\ event' = [op |-> "drop", dropped |-> dropped, accepted |-> acceptedFiles,
               calls0 |-> nCalls, prop0 |-> propFile, display0 |-> displayFile]
  /\ lastOp' = "drop"
  /\ steps' = 0
  /\ UNCHANGED <<parent, propFile, displayFile, nRemoves, nProps>>

\* onDrop: setDisplayFile(droppedFile); onFileSelect?.(droppedFile)
OnDrop(dropped, acceptedFiles) ==
  /\ pc = "idle"
  /\ RootRendered
  /\ NumEvents < MaxEvents
  /\ pendingDisplay' = DroppedFile(acceptedFiles)
  /\ OnFileSelect(DroppedFile(acceptedFiles))
  /\ nDrops' = nDrops + 1
  /\ event' = [op |-> "drop", dropped |-> dropped, accepted |-> acceptedFiles,
               calls0 |-> nCalls, prop0 |-> propFile, display0 |-> displayFile]
  /\ pc' = "render"
  /\ lastOp' = "drop"
  /\ steps' = 0
  /\ UNCHANGED <<parent, propFile, displayFile, nRemoves, nProps>>

\* The user drops files on the root element, or picks them in the file dialog
\* (opened by a click unless noClick): the library calls onDrop with the
\* accepted ones.
Drop == \E dropped \in DropLists : OnDrop(dropped, AcceptedFiles(dropped))

\* onDrop called with any list of files, as by a caller that hands it the
\* list itself.
DropAny == \E acceptedFiles \in DropLists : OnDrop(acceptedFiles, acceptedFiles)

\* -------------------------------------------------------------- the remove
\* HandleRemoveFile without setDisplayFile(null).
HandleRemoveNotifyOnly ==
  /\ pc = "idle"
  /\ displayFile # Null
  /\ NumEvents < MaxEvents
  /\ pendingDisplay' = NoUpdate
  /\ OnFileSelect(Null)
  /\ nRemoves' = nRemoves + 1
  /\ event' = NoEvent("remove")
  /\ pc' = "render"
  /\ lastOp' = "remove"
  /\ steps' = 0
  /\ UNCHANGED <<parent, propFile, displayFile, nDrops, nProps>>

\* HandleRemoveFile without the call of onFileSelect.
HandleRemoveSilent ==
  /\ pc = "idle"
  /\ displayFile # Null
  /\ NumEvents < MaxEvents
  /\ pendingDisplay' = Null
  /\ UNCHANGED <<pendingProp, nCalls, lastCall>>
  /\ nRemoves' = nRemoves + 1
  /\ event' = NoEvent("remove")
  /\ pc' = "render"
  /\ lastOp' = "remove"
  /\ steps' = 0
  /\ UNCHANGED <<parent, propFile, displayFile, nDrops, nProps>>

\* The remove button is rendered in the branch of a displayed file.
\* handleRemoveFile: setDisplayFile(null); onFileSelect?.(null)
HandleRemoveFile ==
  /\ pc = "idle"
  /\ displayFile # Null
  /\ NumEvents < MaxEvents
  /\ pendingDisplay' = Null
  /\ OnFileSelect(Null)
  /\ nRemoves' = nRemoves + 1
  /\ event' = NoEvent("remove")
  /\ pc' = "render"
  /\ lastOp' = "remove"
  /\ steps' = 0
  /\ UNCHANGED <<parent, propFile, displayFile, nDrops, nProps>>

\* ------------------------------------------------------ the parent's render
\* The parent re-renders the component with a file prop of its choice (the
\* same value or another one).
SetProp ==
  /\ pc = "idle"
  /\ NumEvents < MaxEvents
  /\ \E v \in PropValues : pendingProp' = v
  /\ nProps' = nProps + 1
  /\ event' = NoEvent("setProp")
  /\ pc' = "render"
  /\ lastOp' = "setProp"
  /\ steps' = 0
  /\ UNCHANGED <<parent, propFile, displayFile, pendingDisplay, nCalls, lastCall,
                 nDrops, nRemoves>>

\* ------------------------------------------------------- the specifications
Next == Drop \/ HandleRemoveFile \/ SetProp \/ Render \/ Effect

Spec == Init /\ [][Next]_vars

\* The same component with onDrop handed arbitrary lists of files.
NextOnDrop == DropAny \/ HandleRemoveFile \/ SetProp \/ Render \/ Effect

SpecOnDrop == Init /\ [][NextOnDrop]_vars

\* Renders and effects are always processed once scheduled.
FairSpec == Spec /\ WF_vars(Render) /\ WF_vars(Effect)

\* ================================================================= claims
HasCallback == parent # "noCallback"

Quiescent == pc = "idle"

\* The first accepted file of the latest drop, null when there is none.
FirstAccepted == IF event.accepted = <<>> THEN Null ELSE Head(event.accepted)

\* A PDF of at most 20 * 1024 * 1024 bytes.
IsValidPdf(f) ==
  FileType(f) = "application/pdf" /\ FileSize(f) <= 20 * 1024 * 1024

\* C1: after a drop whose accepted-files list is non-empty with first element
\* F, the handler has queued F as the displayed file and the render shows F,
\* and onFileSelect has been invoked exactly once for the drop, with F.
C1_DropSelectsFirst ==
  (event.op = "drop" /\ event.accepted # <<>>) =>
    /\ lastOp = "drop" => pendingDisplay = Head(event.accepted)
    /\ lastOp # "drop" => displayFile = Head(event.accepted)
    /\ HasCallback => nCalls = event.calls0 + 1 /\ lastCall = Head(event.accepted)

C1_Witness ==
  /\ event.op = "drop" /\ event.accepted # <<>>
  /\ Quiescent /\ HasCallback
  /\ displayFile = Head(event.accepted)
  /\ lastCall = displayFile
  /\ nCalls = event.calls0 + 1

\* C2: after a click on the remove button of a displayed file, the handler
\* has queued null as the displayed file and the render shows no file, and
\* onFileSelect has been invoked exactly once for the click, with null,
\* whatever the file prop is.
C2_RemoveClears ==
  event.op = "remove" =>
    /\ event.display0 # Null
    /\ lastOp = "remove" => pendingDisplay = Null
    /\ lastOp # "remove" => displayFile = Null
    /\ HasCallback => nCalls = event.calls0 + 1 /\ lastCall = Null

C2_Witness ==
  /\ event.op = "remove" /\ Quiescent /\ parent = "ignores"
  /\ propFile \in Files
  /\ displayFile = Null
  /\ lastCall = Null /\ nCalls = event.calls0 + 1

\* C3 as stated: once all effects have run, displayFile equals the file prop
\* (undefined counted as null), for every parent.
C3_Original == Quiescent => displayFile = FileToSet(propFile)

\* C3 amended: once all effects have run, displayFile equals the file prop
\* (undefined counted as null) when the parent's onFileSelect sets the file
\* prop to the value it receives, or when the latest event is the mount or a
\* change of the file prop; with a parent that does not update the file prop,
\* a drop or a removal leaves displayFile at the dropped file or null.
C3_MirrorsProp ==
  Quiescent =>
    /\ (parent = "controlled" \/ event.op = "mount" \/ propFile # event.prop0)
         => displayFile = FileToSet(propFile)
    /\ (parent # "controlled" /\ event.op = "drop") => displayFile = FirstAccepted
    /\ (parent # "controlled" /\ event.op = "remove") => displayFile = Null

C3_Witness ==
  /\ Quiescent /\ event.op = "setProp" /\ nDrops > 0
  /\ propFile \in Files /\ propFile # event.prop0
  /\ event.display0 # FileToSet(event.prop0)
  /\ displayFile = propFile

\* C4: displayFile is null or one file in every state, and a drop that
\* delivers several accepted files tracks only the first of them and reports
\* only the first to onFileSelect, once.
C4_AtMostOneFile ==
  /\ displayFile \in Files \cup {Null}
  /\ pendingDisplay \in Files \cup {Null, NoUpdate}
  /\ lastCall \in Files \cup {Null, NoUpdate}
  /\ (event.op = "drop" /\ Len(event.accepted) > 1) =>
       /\ lastOp = "drop" => pendingDisplay = event.accepted[1]
       /\ lastOp # "drop" => displayFile = event.accepted[1]
       /\ HasCallback => nCalls = event.calls0 + 1 /\ lastCall = event.accepted[1]

C4_Witness ==
  /\ event.op = "drop" /\ Len(event.accepted) > 1
  /\ event.accepted[1] # event.accepted[Len(event.accepted)]
  /\ Quiescent /\ HasCallback
  /\ displayFile = event.accepted[1]
  /\ lastCall = event.accepted[1]

C6_EffectSets ==
  /\ lastOp = "effect" =>
       IF pc = "render" THEN pendingDisplay = FileToSet(propFile)
                        ELSE displayFile = FileToSet(propFile)
  /\ (Quiescent /\ (event.op = "mount" \/ propFile # event.prop0))
       => displayFile = FileToSet(propFile)

C6_LocalKept ==
  (Quiescent /\ propFile = event.prop0) =>
    /\ event.op = "drop" => displayFile = FirstAccepted
    /\ event.op = "remove" => displayFile = Null
    /\ event.op = "setProp" => displayFile = event.display0

C6_NoEffectOnSameProp ==
  (pc = "render" /\ propFile' = propFile) => pc' = "idle"

C6_SyncEffect ==
  /\ [](C6_EffectSets /\ C6_LocalKept)
  /\ [][C6_NoEffectOnSameProp]_vars

\* A change of the file prop overrides a file that a drop set locally, and a
\* render with the same file prop has kept a locally dropped file.
C6_Witness ==
  /\ Quiescent /\ event.op = "setProp"
  /\ event.display0 \in Files /\ event.display0 # FileToSet(event.prop0)
  /\ propFile # event.prop0
  /\ displayFile = FileToSet(propFile) /\ displayFile # event.display0

C6_WitnessKept ==
  /\ Quiescent /\ event.op = "setProp" /\ propFile = event.prop0
  /\ displayFile \in Files /\ displayFile # FileToSet(propFile)

\* C7: with a parent whose onFileSelect sets the file prop to the value it
\* receives, a drop or a remove click is followed by at most two renders
\* and effect runs, the component then becomes quiescent, and it is then
\* quiescent with displayFile equal to the file prop and onFileSelect called
\* exactly once for the event.
C7_Bounded ==
  (parent = "controlled" /\ event.op \in {"drop", "remove"}) =>
    /\ steps <= 2
    /\ Quiescent => /\ displayFile = FileToSet(propFile)
                    /\ nCalls = event.calls0 + 1
                    /\ pendingDisplay = NoUpdate /\ pendingProp = NoUpdate

C7_NoUpdateLoop ==
  /\ []C7_Bounded
  /\ (parent = "controlled" /\ ~Quiescent) ~> Quiescent

C7_Witness ==
  /\ parent = "controlled" /\ event.op = "drop" /\ event.accepted # <<>>
  /\ Quiescent /\ steps = 2 /\ lastOp = "effect"
  /\ displayFile = propFile /\ displayFile = Head(event.accepted)
  /\ nCalls = event.calls0 + 1

\* C8: while a file is displayed the dropzone root is not rendered and
\* noClick is set, no drop is enabled, and a displayed file is replaced or
\* cleared only after a remove click or a render by the parent.
C8_Closed ==
  displayFile # Null => ~RootRendered /\ NoClick /\ ~ENABLED Drop

C8_ChangeOnlyByRemoveOrProp ==
  (displayFile # Null /\ displayFile' # displayFile)
    => event.op \in {"remove", "setProp"}

C8_NoSelectWhileDisplayed ==
  /\ []C8_Closed
  /\ [][C8_ChangeOnlyByRemoveOrProp]_vars

C8_Witness ==
  /\ displayFile \in Files /\ Quiescent /\ NumEvents < MaxEvents
  /\ event.op = "drop"
  /\ ENABLED HandleRemoveFile

\* C9: the number of onFileSelect invocations is the number of drop events
\* plus the number of remove clicks, and neither the effect nor a render nor
\* a change of the file prop invokes onFileSelect.
C9_CallsCounted == HasCallback => nCalls = nDrops + nRemoves

C9_EffectSilent ==
  lastOp' \in {"effect", "render", "setProp"}
    => nCalls' = nCalls /\ lastCall' = lastCall

C9_CallbackOnlyFromHandlers ==
  /\ []C9_CallsCounted
  /\ [][C9_EffectSilent]_vars

C9_Witness ==
  /\ HasCallback /\ lastOp = "effect" /\ pc = "render"
  /\ event.op = "setProp" /\ nDrops > 0 /\ nCalls = nDrops + nRemoves

\* C10: a drop in which no file is accepted leaves displayFile null and
\* invokes onFileSelect once, with null.
C10_RejectedDrop ==
  (event.op = "drop" /\ event.accepted = <<>>) =>
    /\ lastOp = "drop" => pendingDisplay = Null
    /\ displayFile = Null
    /\ HasCallback => nCalls = event.calls0 + 1 /\ lastCall = Null

C10_Witness ==
  /\ event.op = "drop" /\ event.accepted = <<>> /\ Len(event.dropped) > 0
  /\ HasCallback /\ Quiescent
  /\ displayFile = Null /\ lastCall = Null /\ nCalls = event.calls0 + 1

=============================================================================
